---- MODULE Spec2Model ----
(***************************************************************************)
(* PetaLinux configuration-value store (scripts/libs/common_utils.py) and  *)
(* the hardware-flow helpers built on it (libs/plnx_utils.py).             *)
(*                                                                         *)
(* Text is modelled character by character: a Python str is a sequence of  *)
(* one-character strings, a file is its byte content (with "\n" as the     *)
(* line terminator) or absent.  Patterns handed to re.search hold no regex *)
(* metacharacter in any caller, so re.search is substring search.          *)
(***************************************************************************)
EXTENDS Integers, Sequences, FiniteSets, TLC

VARIABLES
    fs,     \* the text files: path -> [exists, data]
    op,     \* the last completed operation, its arguments and its result
    reps,   \* how many identical update_config_value calls ran back to back
    wr,     \* a writer inside update_config_value (step-wise specification)
    hw,     \* the hardware files: hw-description directory, imported source
    warns,  \* checksum warnings logged since the validate flag was last reset
    env,    \* the process environment: working directory, directories, symbolic
            \* links, environment variables, the answer waiting on the terminal
    gen     \* the generated files: path -> [exists, data], data a sequence of
            \* the strings written

vars == <<fs, op, reps, wr, hw, warns, env, gen>>

(***************************************************************************)
(* Python str primitives                                                   *)
(***************************************************************************)
NL == "\n"

Whitespace == {" ", "\t", NL}

RECURSIVE Concat(_)
Concat(ss) == IF ss = <<>> THEN <<>> ELSE Head(ss) \o Concat(Tail(ss))

startswith(s, p) == Len(p) <= Len(s) /\ SubSeq(s, 1, Len(p)) = p

endswith(s, p) == Len(p) <= Len(s) /\ SubSeq(s, Len(s) - Len(p) + 1, Len(s)) = p

re_search(pat, s) ==
    \E i \in 1..(Len(s) - Len(pat) + 1) : SubSeq(s, i, i + Len(pat) - 1) = pat

RECURSIVE lstrip(_)
lstrip(s) == IF s # <<>> /\ Head(s) \in Whitespace THEN lstrip(Tail(s)) ELSE s

RECURSIVE rstrip(_)
rstrip(s) ==
    IF s # <<>> /\ s[Len(s)] \in Whitespace
    THEN rstrip(SubSeq(s, 1, Len(s) - 1))
    ELSE s

strip(s) == rstrip(lstrip(s))

RECURSIVE replace(_, _, _)
replace(s, old, new) ==
    IF s = <<>> THEN <<>>
    ELSE IF startswith(s, old)
         THEN new \o replace(SubSeq(s, Len(old) + 1, Len(s)), old, new)
         ELSE <<Head(s)>> \o replace(Tail(s), old, new)

RECURSIVE split(_, _)
split(s, sep) ==
    IF \E i \in 1..Len(s) : s[i] = sep
    THEN LET i == CHOOSE k \in 1..Len(s) :
                      s[k] = sep /\ \A j \in 1..(k - 1) : s[j] # sep
         IN  <<SubSeq(s, 1, i - 1)>> \o split(SubSeq(s, i + 1, Len(s)), sep)
    ELSE <<s>>

UpperCase ==
    <<"A","B","C","D","E","F","G","H","I","J","K","L","M",
      "N","O","P","Q","R","S","T","U","V","W","X","Y","Z">>

LowerCase ==
    <<"a","b","c","d","e","f","g","h","i","j","k","l","m",
      "n","o","p","q","r","s","t","u","v","w","x","y","z">>

lower(s) ==
    [i \in 1..Len(s) |->
        IF \E k \in 1..Len(UpperCase) : UpperCase[k] = s[i]
        THEN LowerCase[CHOOSE k \in 1..Len(UpperCase) : UpperCase[k] = s[i]]
        ELSE s[i]]

(***************************************************************************)
(* Files                                                                   *)
(***************************************************************************)
NoFile == [exists |-> FALSE, data |-> <<>>]

FileOf(data) == [exists |-> TRUE, data |-> data]

\* file_data.readlines(): the lines with their terminators; a last line
\* that is not terminated is a line too.
RECURSIVE ReadLinesFrom(_, _)
ReadLinesFrom(s, cur) ==
    IF s = <<>> THEN (IF cur = <<>> THEN <<>> ELSE <<cur>>)
    ELSE IF \E i \in 1..Len(s) : s[i] = NL
         THEN LET i == CHOOSE k \in 1..Len(s) :
                           s[k] = NL /\ \A j \in 1..(k - 1) : s[j] # NL
              IN  <<cur \o SubSeq(s, 1, i)>>
                      \o ReadLinesFrom(SubSeq(s, i + 1, Len(s)), <<>>)
         ELSE <<cur \o s>>

readlines(f) == IF f.exists THEN ReadLinesFrom(f.data, <<>>) ELSE <<>>

(***************************************************************************)
(* update_config_value                                                     *)
(***************************************************************************)
Disable == <<"d","i","s","a","b","l","e">>

NotSetLine(macro) ==
    <<"#"," ">> \o macro \o <<" ","i","s"," ","n","o","t"," ","s","e","t">>

AssignPrefix(macro) == macro \o <<"=">>

\* the test of the rewrite loop: the line is dropped
DropsLine(macro, line) ==
    re_search(NotSetLine(macro), line) \/ re_search(AssignPrefix(macro), line)

\* the line written after the loop
NewLine(macro, value) ==
    IF value = Disable
    THEN NotSetLine(macro) \o <<NL>>
    ELSE macro \o <<"=">> \o value \o <<NL>>

KeptLines(macro, lines) ==
    LET Keep(l) == ~DropsLine(macro, l) IN SelectSeq(lines, Keep)

update_config_value_keep(macro, value, f) ==
    FileOf(Concat(readlines(f)) \o NewLine(macro, value))

update_config_value(macro, value, f) ==
    FileOf(Concat(KeptLines(macro, readlines(f))) \o NewLine(macro, value))

(***************************************************************************)
(* get_config_value                                                        *)
(***************************************************************************)
Quote == <<"\"">>

EndY == <<"=","y">>

\* the index a "for line in lines: if ...: break" loop stops at, 0 for none
FirstOf(hits) == IF hits = {} THEN 0 ELSE CHOOSE i \in hits : \A j \in hits : i <= j

LastOf(hits) == IF hits = {} THEN 0 ELSE CHOOSE i \in hits : \A j \in hits : j <= i

Returned(v) == [raised |-> FALSE, value |-> v]

IndexError == [raised |-> TRUE, value |-> <<>>]

BoolMatch(macro, line) == startswith(strip(line), AssignPrefix(macro))

BoolValue(macro, line) ==
    replace(replace(strip(line), AssignPrefix(macro), <<>>), Quote, <<>>)

get_bool_last(macro, lines) ==
    LET i == LastOf({ k \in 1..Len(lines) : BoolMatch(macro, lines[k]) })
    IN  Returned(IF i = 0 THEN <<>> ELSE BoolValue(macro, lines[i]))

get_bool(macro, lines) ==
    LET i == FirstOf({ k \in 1..Len(lines) : BoolMatch(macro, lines[k]) })
    IN  Returned(IF i = 0 THEN <<>> ELSE BoolValue(macro, lines[i]))

ChoiceMatch(macro, end_macro, line) ==
    startswith(strip(line), macro) /\ endswith(strip(line), end_macro)

ChoiceValue(macro, end_macro, line) ==
    replace(replace(strip(line), macro, <<>>), end_macro, <<>>)

get_choice(macro, end_macro, lines) ==
    LET i == FirstOf({ k \in 1..Len(lines) : ChoiceMatch(macro, end_macro, lines[k]) })
    IN  Returned(IF i = 0 THEN <<>> ELSE ChoiceValue(macro, end_macro, lines[i]))

RECURSIVE ChoiceListFrom(_, _, _)
ChoiceListFrom(macro, end_macro, lines) ==
    IF lines = <<>> THEN <<>>
    ELSE (IF ChoiceMatch(macro, end_macro, Head(lines))
          THEN <<" ">> \o ChoiceValue(macro, end_macro, Head(lines))
          ELSE <<>>)
         \o ChoiceListFrom(macro, end_macro, Tail(lines))

get_choicelist(macro, end_macro, lines) ==
    Returned(ChoiceListFrom(macro, end_macro, lines))

AsteriskMatch(macro, end_macro, line) ==
    startswith(strip(line), macro) /\ re_search(end_macro, strip(line))

get_asterisk(macro, end_macro, lines) ==
    LET i == FirstOf({ k \in 1..Len(lines) : AsteriskMatch(macro, end_macro, lines[k]) })
    IN  IF i = 0 THEN Returned(<<>>)
        ELSE LET fields == split(strip(lines[i]), "=")
             IN  IF Len(fields) < 2 THEN IndexError
                 ELSE Returned(replace(fields[2], Quote, <<>>))

get_config_value(macro, f, Type, end_macro) ==
    CASE Type = "bool"       -> get_bool(macro, readlines(f))
      [] Type = "choice"     -> get_choice(macro, end_macro, readlines(f))
      [] Type = "choicelist" -> get_choicelist(macro, end_macro, readlines(f))
      [] Type = "asterisk"   -> get_asterisk(macro, end_macro, readlines(f))
      [] OTHER               -> Returned(<<>>)

(***************************************************************************)
(* ConfigStore: update_config_value and get_config_value on one file       *)
(***************************************************************************)
MaxLines == 2

MaxRep == 3

SysConfFile == "config"

MetaDataFile == "metadata"

Paths == {SysConfFile, MetaDataFile}

Idle == [pc |-> "idle", macro |-> <<>>, value |-> <<>>, lines |-> <<>>,
         idx |-> 0, buf |-> <<>>, old |-> NoFile]

NoHw == [dir |-> <<>>, src |-> 0]

NoEnv == [cwd |-> <<>>, projects |-> {}, links |-> {}, ignore |-> <<>>, answer |-> <<>>]

NoGen == <<>>

NoOp == [name |-> "none", path |-> SysConfFile, macro |-> <<>>, value |-> <<>>,
         Type |-> "", end_macro |-> <<>>, before |-> NoFile,
         ret |-> Returned(<<>>), warned |-> FALSE, prompted |-> FALSE]

StoreMacros == { <<"A">>, <<"B","A">> }

StoreValues == { <<"1">>, <<"\"","x","\"">>, Disable }

\* complete lines a config file may hold before the first call
InitLines ==
    { <<"A","=","0",NL>>,
      <<"#"," ","A"," ","i","s"," ","n","o","t"," ","s","e","t",NL>>,
      <<"B","A","=","y",NL>>,
      <<" ","A","=","\"","q","\"",NL>>,
      <<"X",NL>>,
      <<"B","A",NL>> }

\* a last line without terminator (none, an unrelated one, an assignment)
InitTails == { <<>>, <<"X">>, <<"A","=","3">> }

SeqsUpTo(S, n) == UNION { [1..k -> S] : k \in 0..n }

InitFiles ==
    {NoFile} \cup
    { FileOf(Concat(ls) \o t) : ls \in SeqsUpTo(InitLines, MaxLines), t \in InitTails }

\* the lookups callers make: (macro, Type, end_macro)
StoreQueries ==
    { <<m, "bool", EndY>> : m \in StoreMacros } \cup
    { <<<<"B">>, "choice", EndY>>,
      <<<<"B">>, "choicelist", EndY>>,
      <<<<"B">>, "asterisk", <<"A">>>> }

Init ==
    /\ fs \in [Paths -> InitFiles]
    /\ fs[MetaDataFile] = NoFile
    /\ op = NoOp
    /\ reps = 0
    /\ wr = Idle
    /\ hw = NoHw
    /\ warns = 0
    /\ env = NoEnv
    /\ gen = NoGen

Update(path, macro, value) ==
    /\ wr.pc = "idle"
    /\ fs' = [fs EXCEPT ![path] = update_config_value(macro, value, fs[path])]
    /\ op' = [NoOp EXCEPT !.name = "update", !.path = path, !.macro = macro,
                          !.value = value, !.before = fs[path]]
    /\ reps' = IF op.name = "update" /\ op.path = path
                  /\ op.macro = macro /\ op.value = value
               THEN (IF reps < MaxRep THEN reps + 1 ELSE reps)
               ELSE 1
    /\ UNCHANGED <<env, gen, wr, hw, warns>>

Get(path, macro, Type, end_macro) ==
    /\ wr.pc = "idle"
    /\ op' = [NoOp EXCEPT !.name = "get", !.path = path, !.macro = macro,
                          !.Type = Type, !.end_macro = end_macro,
                          !.before = fs[path],
                          !.ret = get_config_value(macro, fs[path], Type, end_macro)]
    /\ reps' = 0
    /\ UNCHANGED <<env, gen, fs, wr, hw, warns>>

StoreUpdate == \E m \in StoreMacros, v \in StoreValues : Update(SysConfFile, m, v)

StoreGet == \E q \in StoreQueries : Get(SysConfFile, q[1], q[2], q[3])

Next == StoreUpdate \/ StoreGet

Spec == Init /\ [][Next]_vars

(***************************************************************************)
(* ConfigStore properties                                                  *)
(***************************************************************************)
IsUpdate == op.name = "update"

IsGet == op.name = "get"

NowLines == readlines(fs[op.path])

\* what the claims call a line of the macro: its assignment, its tombstone
IsAssignment(macro, line) == startswith(strip(line), AssignPrefix(macro))

IsTombstone(macro, line) == strip(line) = NotSetLine(macro)

Terminated(f) == f.data = <<>> \/ f.data[Len(f.data)] = NL

Unquoted(value) == SelectSeq(value, LAMBDA c : c # "\"")

\* C1: update_config_value(macro, value, file) with value other than
\* "disable", followed by get_config_value(macro, file) in bool mode, returns
\* value with its quotes stripped, whatever the file held before (absent,
\* empty, any lines, last line terminated or not).
C1_SetThenGet ==
    (IsUpdate /\ op.value # Disable)
        => get_config_value(op.macro, fs[op.path], "bool", EndY)
               = Returned(Unquoted(op.value))

\* C2: update_config_value(macro, "disable", file) followed by a bool-mode
\* get_config_value returns the empty string, and the file then holds a line
\* "# macro is not set" and no line "macro=...".
C2_DisableThenGet ==
    (IsUpdate /\ op.value = Disable)
        => /\ get_config_value(op.macro, fs[op.path], "bool", EndY) = Returned(<<>>)
           /\ \E i \in 1..Len(NowLines) : IsTombstone(op.macro, NowLines[i])
           /\ \A i \in 1..Len(NowLines) : ~IsAssignment(op.macro, NowLines[i])

\* C3: after update_config_value ran twice or more with the same macro and
\* value, the file holds exactly one line of that macro, the last one: the
\* assignment macro=value (for "disable": the tombstone, and no assignment).
\* Repeating the call never accumulates duplicates.
C3_Idempotent ==
    (IsUpdate /\ reps >= 2)
        => LET n == Len(NowLines)
               active == { i \in 1..n : IsAssignment(op.macro, NowLines[i]) }
               tombs == { i \in 1..n : IsTombstone(op.macro, NowLines[i]) }
           IN  /\ n >= 1
               /\ NowLines[n] = NewLine(op.macro, op.value)
               /\ active \cup tombs = {n}
               /\ (op.value # Disable => active = {n})
               /\ { i \in 1..n : re_search(AssignPrefix(op.macro), NowLines[i]) }
                      \subseteq {n}

C3_Witness ==
    /\ IsUpdate /\ reps >= 2 /\ op.value # Disable
    /\ Len(NowLines) >= 2
    /\ NowLines[Len(NowLines)] = op.macro \o <<"=">> \o op.value \o <<NL>>

\* C4: update_config_value removes only the lines that are the tombstone or
\* an assignment of that macro; every other line is kept unmodified in its
\* relative order, and the new line of the macro is the last line.  Stated
\* for the files whose last line is terminated.
C4_Frame ==
    (IsUpdate /\ Terminated(op.before))
        => LET Other(l) == ~(IsAssignment(op.macro, l) \/ IsTombstone(op.macro, l))
           IN  NowLines = SelectSeq(readlines(op.before), Other)
                              \o <<NewLine(op.macro, op.value)>>

WrRead(macro, value) ==
    /\ wr.pc = "idle"
    /\ wr' = [Idle EXCEPT !.pc = "read", !.macro = macro, !.value = value,
                          !.lines = readlines(fs[SysConfFile]),
                          !.old = fs[SysConfFile]]
    /\ UNCHANGED <<env, gen, fs, op, reps, hw, warns>>

WrOpen ==
    /\ wr.pc = "read"
    /\ fs' = [fs EXCEPT ![SysConfFile] = FileOf(<<>>)]
    /\ wr' = [wr EXCEPT !.pc = "loop", !.idx = 1]
    /\ UNCHANGED <<env, gen, op, reps, hw, warns>>

WrLine ==
    /\ wr.pc = "loop"
    /\ wr.idx <= Len(wr.lines)
    /\ wr' = [wr EXCEPT !.idx = @ + 1,
                        !.buf = IF DropsLine(wr.macro, wr.lines[wr.idx])
                                THEN @ ELSE @ \o wr.lines[wr.idx]]
    /\ UNCHANGED <<env, gen, fs, op, reps, hw, warns>>

WrLast ==
    /\ wr.pc = "loop"
    /\ wr.idx > Len(wr.lines)
    /\ wr' = [wr EXCEPT !.pc = "close", !.buf = @ \o NewLine(wr.macro, wr.value)]
    /\ UNCHANGED <<env, gen, fs, op, reps, hw, warns>>

WrFlush ==
    /\ wr.pc \in {"loop", "close"}
    /\ wr.buf # <<>>
    /\ fs' = [fs EXCEPT ![SysConfFile] = FileOf(@.data \o wr.buf)]
    /\ wr' = [wr EXCEPT !.buf = <<>>]
    /\ UNCHANGED <<env, gen, op, reps, hw, warns>>

WrClose ==
    /\ wr.pc = "close"
    /\ fs' = [fs EXCEPT ![SysConfFile] = FileOf(@.data \o wr.buf)]
    /\ op' = [NoOp EXCEPT !.name = "update", !.macro = wr.macro,
                          !.value = wr.value, !.before = wr.old]
    /\ wr' = Idle
    /\ UNCHANGED <<env, gen, reps, hw, warns>>

WrKill ==
    /\ wr.pc # "idle"
    /\ op' = [NoOp EXCEPT !.name = "killed", !.macro = wr.macro,
                          !.value = wr.value, !.before = wr.old]
    /\ wr' = Idle
    /\ UNCHANGED <<env, gen, fs, reps, hw, warns>>

Peek ==
    /\ \E m \in StoreMacros :
          op' = [NoOp EXCEPT !.name = "peek", !.macro = m, !.Type = "bool",
                             !.end_macro = EndY, !.before = fs[SysConfFile],
                             !.ret = get_config_value(m, fs[SysConfFile], "bool", EndY)]
    /\ UNCHANGED <<env, gen, fs, reps, wr, hw, warns>>

WrStart == \E m \in StoreMacros, v \in StoreValues : WrRead(m, v)

NextSteps ==
    WrStart \/ WrOpen \/ WrLine \/ WrLast \/ WrFlush \/ WrClose \/ WrKill \/ Peek

\* the files of Init whose last line is terminated
InitSteps ==
    /\ Init
    /\ fs[SysConfFile].data # <<>> => fs[SysConfFile].data[Len(fs[SysConfFile].data)] = NL

SpecSteps == InitSteps /\ [][NextSteps]_vars

\* the statements, run to the end, write what update_config_value computes
StepsAgree ==
    (op.name = "update" /\ wr.pc = "idle")
        => fs[SysConfFile] = update_config_value(op.macro, op.value, op.before)

\* C5: a config write is all-or-nothing: at every point of
\* update_config_value, also when it is interrupted part-way or a reader
\* runs between its steps, the file a reader sees is the complete old
\* content or the complete new content.  Stated for the writes that replace
\* a file that held something.
C5_AllOrNothing ==
    LET OldOrNew(macro, value, old) ==
            fs[SysConfFile] \in {old, update_config_value(macro, value, old)}
    IN  /\ (wr.pc # "idle" /\ wr.old.data # <<>>)
               => OldOrNew(wr.macro, wr.value, wr.old)
        /\ (op.name = "killed" /\ op.before.data # <<>>)
               => OldOrNew(op.macro, op.value, op.before)

(***************************************************************************)
(* Hardware-flow derivation: is_hwflow_sdt, get_soc_variant,               *)
(* get_xilinx_arch                                                         *)
(***************************************************************************)
HDF_EXT == <<"H","D","F","_","E","X","T">>

\* plnx_vars: the choice-macro prefixes of the system config
Xilinx_Arch_Conf == <<"S","Y","S","_">>

SOC_VariantConf == <<"V","A","R","_">>

Str_dts == <<"d","t","s">>

Str_sdt == <<"s","d","t">>

Str_xsa == <<"x","s","a">>

Str_versal == <<"v","e","r","s","a","l">>

Str_versalnet == <<"v","e","r","s","a","l","n","e","t">>

Str_versal_net == <<"v","e","r","s","a","l","-","n","e","t">>

is_hwflow_sdt(meta) ==
    LET hdf_ext == get_config_value(HDF_EXT, meta, "bool", EndY).value
    IN  IF hdf_ext = Str_dts THEN Str_sdt ELSE hdf_ext

get_soc_variant(sysconf) ==
    lower(get_config_value(SOC_VariantConf, sysconf, "choice", EndY).value)

get_xilinx_arch_any(sysconf) ==
    LET xilinx_arch ==
            lower(get_config_value(Xilinx_Arch_Conf, sysconf, "choice", EndY).value)
    IN  IF xilinx_arch = Str_versal THEN Str_versal_net ELSE xilinx_arch

get_xilinx_arch(sysconf) ==
    LET xilinx_arch ==
            lower(get_config_value(Xilinx_Arch_Conf, sysconf, "choice", EndY).value)
    IN  IF xilinx_arch = Str_versal
        THEN (IF get_soc_variant(sysconf) = Str_versalnet
              THEN Str_versal_net ELSE xilinx_arch)
        ELSE xilinx_arch

\* metadata files: none, empty, HDF_EXT stored as dts, "dts", xsa or empty,
\* alone or after another entry
FlowMeta ==
    LET ext(v) == HDF_EXT \o <<"=">> \o v \o <<NL>>
        other == <<"X","=","1",NL>>
        exts == { ext(Str_dts), ext(Quote \o Str_dts \o Quote), ext(Str_xsa), ext(<<>>),
                  ext(<<"D","T","S">>) }
    IN  {NoFile, FileOf(<<>>), FileOf(other)}
            \cup { FileOf(e) : e \in exts } \cup { FileOf(other \o e) : e \in exts }

\* system configs: an architecture choice and a variant choice, each set,
\* unset (tombstone) or missing, in either order
FlowSysConf ==
    LET on(prefix, name) == prefix \o name \o <<"=","y",NL>>
        off(prefix, name) == <<"#"," ">> \o prefix \o name
                                 \o <<" ","i","s"," ","n","o","t"," ","s","e","t",NL>>
        VERSAL == <<"V","E","R","S","A","L">>
        ZYNQMP == <<"Z","Y","N","Q","M","P">>
        VERSALNET == <<"V","E","R","S","A","L","N","E","T">>
        VERSALHBM == <<"V","E","R","S","A","L","H","B","M">>
        archs == { <<>>, on(Xilinx_Arch_Conf, VERSAL), on(Xilinx_Arch_Conf, ZYNQMP),
                   off(Xilinx_Arch_Conf, VERSAL) \o on(Xilinx_Arch_Conf, ZYNQMP),
                   off(Xilinx_Arch_Conf, ZYNQMP) \o on(Xilinx_Arch_Conf, VERSAL) }
        variants == { <<>>, on(SOC_VariantConf, VERSALNET), on(SOC_VariantConf, VERSALHBM),
                      off(SOC_VariantConf, VERSALNET),
                      off(SOC_VariantConf, VERSALHBM) \o on(SOC_VariantConf, VERSALNET) }
    IN  {NoFile} \cup { FileOf(a \o v) : a \in archs, v \in variants }
                 \cup { FileOf(v \o a) : a \in archs, v \in variants }

InitFlow ==
    /\ fs \in [Paths -> FlowMeta \cup FlowSysConf]
    /\ fs[MetaDataFile] \in FlowMeta
    /\ fs[SysConfFile] \in FlowSysConf
    /\ op = NoOp
    /\ reps = 0
    /\ wr = Idle
    /\ hw = NoHw
    /\ warns = 0
    /\ env = NoEnv
    /\ gen = NoGen

Call(name, path, result) ==
    /\ op' = [NoOp EXCEPT !.name = name, !.path = path, !.before = fs[path],
                          !.ret = Returned(result)]
    /\ UNCHANGED <<env, gen, fs, reps, wr, hw, warns>>

IsHwflowSdt == Call("is_hwflow_sdt", MetaDataFile, is_hwflow_sdt(fs[MetaDataFile]))

GetSocVariant == Call("get_soc_variant", SysConfFile, get_soc_variant(fs[SysConfFile]))

GetXilinxArch == Call("get_xilinx_arch", SysConfFile, get_xilinx_arch(fs[SysConfFile]))

NextFlow == IsHwflowSdt \/ GetSocVariant \/ GetXilinxArch

SpecFlow == InitFlow /\ [][NextFlow]_vars

\* the value a file stores for a key: the text after "key=" on the first
\* line that starts with it, quotes dropped; empty when there is none
Stored(key, f) ==
    LET lines == readlines(f)
        hits == { i \in 1..Len(lines) : startswith(strip(lines[i]), key \o <<"=">>) }
        l == strip(lines[CHOOSE i \in hits : \A j \in hits : i <= j])
    IN  IF hits = {} THEN <<>> ELSE Unquoted(SubSeq(l, Len(key) + 2, Len(l)))

\* what a choice macro resolves to: NAME, lower-cased, of the first line
\* <prefix>NAME=y; empty when there is none
Resolved(prefix, f) ==
    LET lines == readlines(f)
        hits == { i \in 1..Len(lines) :
                    /\ startswith(strip(lines[i]), prefix)
                    /\ endswith(strip(lines[i]), EndY) }
        l == strip(lines[CHOOSE i \in hits : \A j \in hits : i <= j])
    IN  IF hits = {} THEN <<>> ELSE lower(SubSeq(l, Len(prefix) + 1, Len(l) - 2))

\* C7: is_hwflow_sdt returns sdt if and only if the HDF_EXT value stored in
\* the metadata file equals dts, returns xsa for every other stored value
\* (an empty or missing HDF_EXT included), and so always returns sdt or xsa.
C7_FlowIsSdtOrXsa ==
    op.name = "is_hwflow_sdt"
        => LET stored == Stored(HDF_EXT, op.before)
           IN  /\ op.ret.value = Str_sdt <=> stored = Str_dts
               /\ stored # Str_dts => op.ret.value = Str_xsa
               /\ op.ret.value \in {Str_sdt, Str_xsa}

\* C8: get_xilinx_arch returns versal-net if and only if the base
\* architecture choice resolves to versal and the SoC-variant choice resolves
\* to versalnet; with base versal and any other variant (or none) it returns
\* versal; for any other base it returns the lower-cased base, whatever the
\* variant.
C8_XilinxArch ==
    op.name = "get_xilinx_arch"
        => LET base == Resolved(Xilinx_Arch_Conf, op.before)
               variant == Resolved(SOC_VariantConf, op.before)
           IN  /\ op.ret.value = Str_versal_net
                      <=> (base = Str_versal /\ variant = Str_versalnet)
               /\ (base = Str_versal /\ variant # Str_versalnet)
                      => op.ret.value = Str_versal
               /\ base # Str_versal => op.ret.value = base

C8_Witness ==
    /\ op.name = "get_xilinx_arch"
    /\ op.ret.value = Str_versal_net
    /\ Resolved(SOC_VariantConf, op.before) = Str_versalnet

(***************************************************************************)
(* validate_hwchecksum                                                     *)
(***************************************************************************)
NContents == 2

MaxWarns == 2

HARDWARE_CHECKSUM ==
    <<"H","A","R","D","W","A","R","E","_","C","H","E","C","K","S","U","M">>

HARDWARE_PATH == <<"H","A","R","D","W","A","R","E","_","P","A","T","H">>

VALIDATE_HW_CHKSUM ==
    <<"V","A","L","I","D","A","T","E","_","H","W","_","C","H","K","S","U","M">>

\* the one place a hardware description is imported from
SrcPath == <<"/","s">>

\* get_filehashvalue: the digest of a file's content, contents told apart
\* by number; digests of different contents differ and none is empty
get_filehashvalue(content) == <<"h", <<"1","2","3","4","5","6","7","8","9">>[content]>>

\* os.path.isfile(hw_path)
isfile(path, h) == path = SrcPath /\ h.src # 0

\* the scan of os.listdir(HWDescDir): the first .xsa or .dts entry, 0 if none
hw_file(h) ==
    FirstOf({ k \in 1..Len(h.dir) : h.dir[k].ext \in {"xsa", "dts"} })

Exit255 == [raised |-> TRUE, value |-> <<>>]

\* the warning logged, the flag left as it was
validate_hwchecksum_nolatch(meta, h) ==
    LET i == hw_file(h)
        hw_path == get_config_value(HARDWARE_PATH, meta, "bool", EndY).value
        validate_chksum == get_config_value(VALIDATE_HW_CHKSUM, meta, "bool", EndY).value
    IN  IF i = 0
        THEN [ret |-> Exit255, warned |-> FALSE, meta |-> meta]
        ELSE [ret |-> Returned(<<>>),
              warned |-> /\ isfile(hw_path, h)
                         /\ get_filehashvalue(h.dir[i].data) # get_filehashvalue(h.src)
                         /\ validate_chksum # <<"0">>,
              meta |-> meta]

\* every entry of the listing is a regular file, so os.path.isfile(hw_file)
\* holds for the entry found
validate_hwchecksum(meta, h) ==
    LET i == hw_file(h)
        hw_checksum_old == get_config_value(HARDWARE_CHECKSUM, meta, "bool", EndY).value
        hw_path == get_config_value(HARDWARE_PATH, meta, "bool", EndY).value
        hw_path_checksum ==
            IF isfile(hw_path, h) THEN get_filehashvalue(h.src) ELSE <<>>
        hw_checksum == get_filehashvalue(h.dir[i].data)
        validate_chksum == get_config_value(VALIDATE_HW_CHKSUM, meta, "bool", EndY).value
    IN  IF i = 0
        THEN [ret |-> Exit255, warned |-> FALSE, meta |-> meta]
        ELSE IF /\ hw_path_checksum # <<>>
                /\ hw_checksum # hw_path_checksum
                /\ validate_chksum # <<"0">>
             THEN [ret |-> Returned(<<>>), warned |-> TRUE,
                   meta |-> update_config_value(VALIDATE_HW_CHKSUM, <<"0">>, meta)]
             ELSE [ret |-> Returned(<<>>), warned |-> FALSE, meta |-> meta]

Contents == 1..NContents

\* metadata as the tool writes it: whole lines, each key at most once
HwMeta ==
    LET entry(key, v) == key \o <<"=">> \o v \o <<NL>>
        sums == {<<>>} \cup { entry(HARDWARE_CHECKSUM, get_filehashvalue(c)) : c \in Contents }
        paths == { <<>>, entry(HARDWARE_PATH, SrcPath) }
        flags == { <<>>, entry(VALIDATE_HW_CHKSUM, <<"0">>),
                   entry(VALIDATE_HW_CHKSUM, <<"1">>) }
    IN  {NoFile} \cup { FileOf(s \o p \o f) : s \in sums, p \in paths, f \in flags }
                 \cup { FileOf(f \o s \o p) : s \in sums, p \in paths, f \in flags }

HwDirs ==
    LET hwf(ext, c) == [ext |-> ext, data |-> c]
    IN  { <<>>, <<hwf("txt", 1)>> }
            \cup { <<hwf(e, c)>> : e \in {"xsa", "dts"}, c \in Contents }
            \cup { <<hwf("txt", 1), hwf("dts", c)>> : c \in Contents }

InitHw ==
    /\ fs \in [Paths -> HwMeta]
    /\ fs[SysConfFile] = NoFile
    /\ hw \in [dir : HwDirs, src : {0} \cup Contents]
    /\ op = NoOp
    /\ reps = 0
    /\ wr = Idle
    /\ warns = 0
    /\ env = NoEnv
    /\ gen = NoGen

ValidateHwChecksum ==
    LET r == validate_hwchecksum(fs[MetaDataFile], hw)
    IN  /\ fs' = [fs EXCEPT ![MetaDataFile] = r.meta]
        /\ op' = [NoOp EXCEPT !.name = "validate_hwchecksum", !.path = MetaDataFile,
                              !.before = fs[MetaDataFile], !.ret = r.ret,
                              !.warned = r.warned]
        /\ warns' = IF r.warned /\ warns < MaxWarns THEN warns + 1 ELSE warns
        /\ UNCHANGED <<env, gen, reps, wr, hw>>

\* the file at HARDWARE_PATH is edited, replaced or removed by its owner
ChangeSource ==
    /\ \E c \in {0} \cup Contents : c # hw.src /\ hw' = [hw EXCEPT !.src = c]
    /\ op' = [NoOp EXCEPT !.name = "change_source", !.path = MetaDataFile,
                          !.before = fs[MetaDataFile]]
    /\ UNCHANGED <<env, gen, fs, reps, wr, warns>>

\* the hardware description is imported again: the source is copied into
\* the project, its checksum and path are recorded and the flag is set anew
ImportHw ==
    /\ hw.src # 0
    /\ hw' = [hw EXCEPT !.dir = <<[ext |-> "xsa", data |-> hw.src]>>]
    /\ fs' = [fs EXCEPT ![MetaDataFile] =
                 update_config_value(VALIDATE_HW_CHKSUM, <<"1">>,
                     update_config_value(HARDWARE_PATH, SrcPath,
                         update_config_value(HARDWARE_CHECKSUM,
                             get_filehashvalue(hw.src), @)))]
    /\ op' = [NoOp EXCEPT !.name = "import_hw", !.path = MetaDataFile,
                          !.before = fs[MetaDataFile]]
    /\ warns' = 0
    /\ UNCHANGED <<env, gen, reps, wr>>

NextHw == ValidateHwChecksum \/ ChangeSource \/ ImportHw

SpecHw == InitHw /\ [][NextHw]_vars

IsValidate == op.name = "validate_hwchecksum"

\* C9: the checksum warning is a one-shot latch: the run that warns sets
\* VALIDATE_HW_CHKSUM to 0 in the metadata file, a run that finds the flag
\* at 0 does not warn, so that at most one run warns until the flag is reset
\* elsewhere; a run that does not warn leaves the metadata file unchanged.
C9_Latch ==
    /\ warns <= 1
    /\ IsValidate
         => /\ op.warned => Stored(VALIDATE_HW_CHKSUM, fs[MetaDataFile]) = <<"0">>
            /\ Stored(VALIDATE_HW_CHKSUM, op.before) = <<"0">> => ~op.warned
            /\ ~op.warned => fs[MetaDataFile] = op.before

C9_Witness ==
    /\ IsValidate /\ ~op.warned /\ warns = 1
    /\ Stored(VALIDATE_HW_CHKSUM, op.before) = <<"0">>
    /\ hw_file(hw) # 0 /\ hw.src # 0
    /\ get_filehashvalue(hw.dir[hw_file(hw)].data) # get_filehashvalue(hw.src)

\* C10: validate_hwchecksum detects drift against the checksum recorded in
\* metadata: whenever the fresh hash of the project's hardware-description
\* file differs from the stored HARDWARE_CHECKSUM and the validate flag is
\* not 0, the run warns and sets the flag to 0, whether or not the imported
\* source file still exists at HARDWARE_PATH.
C10_DriftAgainstStored ==
    (/\ IsValidate
     /\ ~op.ret.raised
     /\ Stored(HARDWARE_CHECKSUM, op.before) # <<>>
     /\ get_filehashvalue(hw.dir[hw_file(hw)].data) # Stored(HARDWARE_CHECKSUM, op.before)
     /\ Stored(VALIDATE_HW_CHKSUM, op.before) # <<"0">>)
        => /\ op.warned
           /\ Stored(VALIDATE_HW_CHKSUM, fs[MetaDataFile]) = <<"0">>

(***************************************************************************)
(* petalinux_version_check                                                 *)
(***************************************************************************)
\* plnx_vars: the metadata key of the tool version and the running version
PetaLinux_Ver_Str == <<"P","E","T","A","L","I","N","U","X","_","V","E","R">>

PetaLinux_Ver == <<"2","4",".","1">>

Str_True == <<"True">>

Str_False == <<"False">>

\* the answers the prompt takes for yes
YesChoices ==
    { <<"y">>, <<"Y">>, <<"y","e","s">>, <<"Y","e","s">>,
      <<"Y","E","s">>, <<"Y","E","S">> }

\* petalinux_ver and metadata_file are bound nowhere in the module
NameError == [raised |-> TRUE, value |-> <<"NameError">>]

CreateFile(f) == IF f.exists THEN f ELSE FileOf(<<>>)

petalinux_version_check(meta, e) ==
    LET created == CreateFile(meta)
        proj_version ==
            get_config_value(PetaLinux_Ver_Str, created, "bool", EndY).value
        Result(r, f, w, p) == [ret |-> r, meta |-> f, warned |-> w, prompted |-> p]
    IN  IF proj_version = <<>>
        THEN Result(Returned(Str_True),
                    update_config_value(PetaLinux_Ver_Str, PetaLinux_Ver, created),
                    FALSE, FALSE)
        ELSE IF PetaLinux_Ver # proj_version
        THEN (IF e.ignore # <<>>
              THEN Result(Returned(Str_True), created, TRUE, FALSE)
              ELSE IF e.answer \in YesChoices
              THEN Result(NameError, created, TRUE, TRUE)
              ELSE Result(Returned(Str_False), created, TRUE, TRUE))
        ELSE Result(Returned(Str_True), created, FALSE, FALSE)

\* metadata: none, empty, the running version, an older one (bare, quoted,
\* after another entry)
VerMeta ==
    LET entry(v) == PetaLinux_Ver_Str \o <<"=">> \o v \o <<NL>>
        old == <<"2","3",".","2">>
        other == HDF_EXT \o <<"=","x","s","a",NL>>
    IN  { NoFile, FileOf(<<>>), FileOf(other),
          FileOf(entry(PetaLinux_Ver)), FileOf(other \o entry(PetaLinux_Ver)),
          FileOf(entry(old)), FileOf(entry(Quote \o old \o Quote)),
          FileOf(other \o entry(old)) }

\* what the user types at the prompt
Answers ==
    YesChoices \cup { <<>>, <<"n">>, <<"N">>, <<"n","o">>, <<"y","e","p">> }

InitVer ==
    /\ fs \in [Paths -> VerMeta]
    /\ fs[SysConfFile] = NoFile
    /\ env = NoEnv
    /\ op = NoOp
    /\ reps = 0
    /\ wr = Idle
    /\ hw = NoHw
    /\ warns = 0
    /\ gen = NoGen

PetalinuxVersionCheck ==
    LET r == petalinux_version_check(fs[MetaDataFile], env)
    IN  /\ fs' = [fs EXCEPT ![MetaDataFile] = r.meta]
        /\ op' = [NoOp EXCEPT !.name = "petalinux_version_check",
                              !.path = MetaDataFile, !.before = fs[MetaDataFile],
                              !.ret = r.ret, !.warned = r.warned,
                              !.prompted = r.prompted]
        /\ UNCHANGED <<reps, wr, hw, warns, env, gen>>

\* the user sets or clears PLNX_IGNORE_VER_CHK, or has another answer ready
SetEnviron ==
    /\ \E i \in { <<>>, <<"1">> }, a \in Answers :
          /\ <<i, a>> # <<env.ignore, env.answer>>
          /\ env' = [env EXCEPT !.ignore = i, !.answer = a]
    /\ op' = NoOp
    /\ UNCHANGED <<fs, reps, wr, hw, warns, gen>>

NextVer == PetalinuxVersionCheck \/ SetEnviron

SpecVer == InitVer /\ [][NextVer]_vars

\* C11: petalinux_version_check always ends by returning a decision: true
\* when no version is stored (the running version is then recorded), true
\* when the stored version is the running one, true without prompting when
\* they differ and PLNX_IGNORE_VER_CHK is non-empty, and when they differ
\* with the override unset, true if the user answers y, Y or yes and false if
\* the user declines; no branch ends in an error.
C11_Decision ==
    op.name = "petalinux_version_check"
        => LET stored == Stored(PetaLinux_Ver_Str, op.before)
               differ == stored # <<>> /\ stored # PetaLinux_Ver
           IN  /\ ~op.ret.raised
               /\ op.ret.value \in {Str_True, Str_False}
               /\ stored = <<>>
                      => /\ op.ret.value = Str_True
                         /\ Stored(PetaLinux_Ver_Str, fs[MetaDataFile]) = PetaLinux_Ver
               /\ stored = PetaLinux_Ver => op.ret.value = Str_True
               /\ (differ /\ env.ignore # <<>>)
                      => (op.ret.value = Str_True /\ ~op.prompted)
               /\ (differ /\ env.ignore = <<>>
                          /\ env.answer \in { <<"y">>, <<"Y">>, <<"y","e","s">> })
                      => op.ret.value = Str_True
               /\ (differ /\ env.ignore = <<>>
                          /\ env.answer \in { <<>>, <<"n">>, <<"N">>, <<"n","o">> })
                      => op.ret.value = Str_False

(***************************************************************************)
(* exit_not_plnx_project                                                   *)
(***************************************************************************)
\* A resolved path is the sequence of its components below the root, a
\* component a sequence of characters; an argument is the text the caller
\* passed: absolute or relative, with . and .. and symbolic links unresolved.
MaxDepth == 2

Root == <<>>

Dot == <<".">>

DotDot == <<".", ".">>

dirname(path) ==
    IF path = Root THEN Root ELSE SubSeq(path, 1, Len(path) - 1)

\* re.search(r"\s", proot)
HasSpace(path) ==
    \E i \in 1..Len(path) : \E j \in 1..Len(path[i]) : path[i][j] \in Whitespace

\* os.path.exists(plnx_vars.MetaDataDir.format(path))
HasMetaDataDir(path, e) == path \in e.projects

RECURSIVE Resolve(_, _, _)
Resolve(done, rest, links) ==
    IF rest = <<>> THEN done
    ELSE LET c == Head(rest)
             n == Append(done, c)
             hit == { l \in links : l.at = n }
         IN  IF c = Dot THEN Resolve(done, Tail(rest), links)
             ELSE IF c = DotDot THEN Resolve(dirname(done), Tail(rest), links)
             ELSE IF hit # {} THEN Resolve((CHOOSE l \in hit : TRUE).to, Tail(rest), links)
             ELSE Resolve(n, Tail(rest), links)

realpath(arg, e) ==
    Resolve(IF arg.abs THEN Root ELSE e.cwd, arg.parts, e.links)

\* the falsy argument: the empty string
NoArg == [abs |-> FALSE, parts |-> <<>>]

RECURSIVE WalkUp(_, _)
WalkUp(workingdir, e) ==
    IF HasMetaDataDir(workingdir, e)
    THEN (IF HasSpace(workingdir) THEN Exit255 ELSE Returned(workingdir))
    ELSE IF dirname(workingdir) = workingdir THEN Exit255
    ELSE WalkUp(dirname(workingdir), e)

RECURSIVE WalkUpAny(_, _)
WalkUpAny(workingdir, e) ==
    IF HasMetaDataDir(workingdir, e) THEN Returned(workingdir)
    ELSE IF dirname(workingdir) = workingdir THEN Exit255
    ELSE WalkUpAny(dirname(workingdir), e)

\* the upward walk returning the first root found, whitespace or not
exit_not_plnx_project_anyroot(arg, e) ==
    IF arg # NoArg
    THEN LET proot == realpath(arg, e)
         IN  IF ~HasMetaDataDir(proot, e) THEN Exit255
             ELSE IF HasSpace(proot) THEN Exit255
             ELSE Returned(proot)
    ELSE WalkUpAny(e.cwd, e)

exit_not_plnx_project(arg, e) ==
    IF arg # NoArg
    THEN LET proot == realpath(arg, e)
         IN  IF ~HasMetaDataDir(proot, e) THEN Exit255
             ELSE IF HasSpace(proot) THEN Exit255
             ELSE Returned(proot)
    ELSE WalkUp(e.cwd, e)

\* directory names: plain, with a blank, with a tab, and a symbolic link
DirNames == { <<"p">>, <<"m","y"," ","p">>, <<"t","\t">> }

LinkName == <<"l">>

Dirs == SeqsUpTo(DirNames, MaxDepth)

\* the link /l points nowhere, to the plain directory or to the one with a blank
LinkChoices ==
    { {}, {[at |-> <<LinkName>>, to |-> << <<"p">> >>]},
          {[at |-> <<LinkName>>, to |-> << <<"m","y"," ","p">> >>]} }

\* where metadata directories are
ProjectChoices ==
    SUBSET { Root, << <<"p">> >>, << <<"m","y"," ","p">> >>,
             << <<"p">>, <<"t","\t">> >>, << <<"m","y"," ","p">>, <<"p">> >> }

Args ==
    { NoArg,
      [abs |-> FALSE, parts |-> <<Dot>>],
      [abs |-> FALSE, parts |-> <<DotDot>>],
      [abs |-> FALSE, parts |-> << <<"p">> >>],
      [abs |-> TRUE, parts |-> << <<"p">> >>],
      [abs |-> TRUE, parts |-> << <<"m","y"," ","p">> >>],
      [abs |-> TRUE, parts |-> << <<"p">>, <<"t","\t">> >>],
      [abs |-> TRUE, parts |-> <<LinkName>>],
      [abs |-> TRUE, parts |-> <<LinkName, DotDot, <<"p">> >>] }

InitProj ==
    /\ env \in [cwd : {Root}, projects : ProjectChoices, links : LinkChoices,
                ignore : {<<>>}, answer : {<<>>}]
    /\ fs = [q \in Paths |-> NoFile]
    /\ op = NoOp
    /\ reps = 0
    /\ wr = Idle
    /\ hw = NoHw
    /\ warns = 0
    /\ gen = NoGen

ExitNotPlnxProject ==
    \E arg \in Args :
        /\ op' = [NoOp EXCEPT !.name = "exit_not_plnx_project", !.value = arg,
                              !.ret = exit_not_plnx_project(arg, env)]
        /\ UNCHANGED <<fs, reps, wr, hw, warns, env, gen>>

\* cd into a directory or up
Chdir ==
    /\ \E d \in Dirs :
          /\ d # env.cwd
          /\ dirname(d) = env.cwd \/ d = dirname(env.cwd)
          /\ env' = [env EXCEPT !.cwd = d]
    /\ op' = NoOp
    /\ UNCHANGED <<fs, reps, wr, hw, warns, gen>>

NextProj == ExitNotPlnxProject \/ Chdir

SpecProj == InitProj /\ [][NextProj]_vars

IsExitNot == op.name = "exit_not_plnx_project"

\* the nearest directory at or above the working directory holding a
\* metadata directory, as a set of at most one path
NearestRoot ==
    LET above == { SubSeq(env.cwd, 1, k) : k \in 0..Len(env.cwd) } \cap env.projects
    IN  { r \in above : \A o \in above : Len(o) <= Len(r) }

\* C12: exit_not_plnx_project never returns a project root containing
\* whitespace: for an explicit path and for a root found by walking upward
\* from the working directory, a resolved path with a whitespace character
\* ends in exit status 255 whether or not the metadata directory is there;
\* every path returned contains the metadata directory (and such a root
\* without whitespace is returned).
C12_NoWhitespaceRoot ==
    IsExitNot
        => /\ ~op.ret.raised
                  => /\ ~HasSpace(op.ret.value)
                     /\ op.ret.value \in env.projects
           /\ (op.value # NoArg /\ HasSpace(realpath(op.value, env)))
                  => op.ret = Exit255
           /\ (op.value = NoArg /\ \E r \in NearestRoot : HasSpace(r))
                  => op.ret = Exit255
           /\ (op.value # NoArg /\ ~HasSpace(realpath(op.value, env))
                                /\ realpath(op.value, env) \in env.projects)
                  => op.ret = Returned(realpath(op.value, env))
           /\ (op.value = NoArg /\ \E r \in NearestRoot : ~HasSpace(r))
                  => op.ret.value \in NearestRoot /\ ~op.ret.raised

\* the walk from a subdirectory finds a root whose name has a blank and exits
C12_Witness ==
    /\ IsExitNot
    /\ op.value = NoArg
    /\ \E r \in NearestRoot : HasSpace(r) /\ r # env.cwd
    /\ op.ret = Exit255

(***************************************************************************)
(* gen_sysconf_dtsi_file                                                   *)
(***************************************************************************)
Digits == <<"0","1","2","3","4","5","6","7","8","9">>

HexDigits == Digits \o <<"a","b","c","d","e","f">>

\* str(num), '%s' % num
RECURSIVE str(_)
str(n) ==
    IF n < 10 THEN <<Digits[n + 1]>> ELSE str(n \div 10) \o <<Digits[(n % 10) + 1]>>

RECURSIVE hexdigits(_)
hexdigits(n) ==
    IF n < 16 THEN <<HexDigits[n + 1]>>
    ELSE hexdigits(n \div 16) \o <<HexDigits[(n % 16) + 1]>>

hex(n) == <<"0","x">> \o hexdigits(n)

ValueError == [raised |-> TRUE, value |-> <<"ValueError">>]

IsHexDigit(c) == \E k \in 1..16 : HexDigits[k] = c

RECURSIVE HexValue(_, _)
HexValue(ds, acc) ==
    IF ds = <<>> THEN acc
    ELSE HexValue(Tail(ds),
                  acc * 16 + (CHOOSE k \in 0..15 : HexDigits[k + 1] = Head(ds)))

\* int(s, base=16): blanks around, an optional 0x or 0X, then digits
int16(s) ==
    LET t == lower(strip(s))
        ds == IF startswith(t, <<"0","x">>) THEN SubSeq(t, 3, Len(t)) ELSE t
    IN  IF ds # <<>> /\ \A i \in 1..Len(ds) : IsHexDigit(ds[i])
        THEN Returned(HexValue(ds, 0))
        ELSE ValueError

\* the offset of a partition is the size of the one before it
add_offsets_end(start, end) ==
    IF int16(start).raised \/ int16(end).raised THEN ValueError
    ELSE Returned(hex(int16(end).value))

add_offsets(start, end) ==
    IF int16(start).raised \/ int16(end).raised THEN ValueError
    ELSE Returned(hex(int16(start).value + int16(end).value))

\* A generated file is the sequence of the strings written to it, a string
\* being a template of plnx_vars and the values formatted into it.
Fragment(template, args) == [template |-> template, args |-> args]

\* re.match(string, line) on some line of the file
string_found(f, string) == \E i \in 1..Len(f.data) : f.data[i] = string

add_str_to_file(f, string, ignore_if_exists, mode) ==
    IF ~ignore_if_exists \/ ~string_found(f, string)
    THEN (IF mode = "w" THEN FileOf(<<string>>) ELSE FileOf(f.data \o <<string>>))
    ELSE f

\* plnx_vars: the keys of the system configuration
AutoBootArgsConf == <<"A","B","A">>

BootArgsCmdLineConf == <<"C","B","A">>

EthConfs ==
    [Prefix |-> <<"E","_">>, Mac |-> <<"_","M","A","C","=">>,
     IPConf |-> <<"_","I","P","=">>, IPNetMaskConf |-> <<"_","N","M","=">>,
     IPGetWay |-> <<"_","G","W","=">>, Dhcp |-> <<"_","D","H","=">>]

EthManualConf == <<"E","_","M","A","N","U","A","L","_","S","E","L","E","C","T">>

EndSelect == <<"_","S","E","L","E","C","T","=","y">>

Str_manual == <<"m","a","n","u","a","l">>

FlashIpConf == <<"F","I","P">>

FlashConfs == [Prefix |-> <<"P">>, Name |-> <<"_","N">>, Size |-> <<"_","S">>]

\* range(0, 19)
FlashParts == 19

\* the generated files
SdtSystemConfDtsi == "sysconf.dtsi"

P_Interfaces == "interfaces"

P_SystemdWired == "wired.network"

P_InetDConf == "inetd.conf"

GenPaths == {SdtSystemConfDtsi, P_Interfaces, P_SystemdWired, P_InetDConf}

None == <<"None">>

\* '%s%s%s' % (plnx_vars.FlashConfs['Prefix'], num, suffix)
PartMacro(num, suffix) == FlashConfs.Prefix \o str(num) \o suffix

RECURSIVE FlashLoop(_, _, _, _, _)
FlashLoop(num, prev_part_offset, prev_part_size, dtsi, sysconf) ==
    IF num >= FlashParts THEN [raised |-> FALSE, file |-> dtsi]
    ELSE LET part_offset == add_offsets(prev_part_offset, prev_part_size)
             part_name == get_config_value(PartMacro(num, FlashConfs.Name),
                                           sysconf, "bool", EndY).value
             part_size == get_config_value(PartMacro(num, FlashConfs.Size),
                                           sysconf, "bool", EndY).value
         IN  IF part_offset.raised THEN [raised |-> TRUE, file |-> dtsi]
             ELSE IF part_name # <<>>
             THEN FlashLoop(num + 1, part_offset.value, part_size,
                            add_str_to_file(dtsi,
                                Fragment("FlashPartNode",
                                    <<str(num), part_name, part_offset.value, part_size>>),
                                FALSE, "a"),
                            sysconf)
             ELSE [raised |-> FALSE, file |-> dtsi]

gen_sysconf_dtsi_file(sysconf, dtsi) ==
    LET auto == get_config_value(AutoBootArgsConf, sysconf, "bool", EndY).value
        bootargs ==
            IF auto = <<>>
            THEN get_config_value(BootArgsCmdLineConf, sysconf, "bool", EndY).value
            ELSE auto
        f1 == add_str_to_file(dtsi, Fragment("SystemconfBootargs", <<bootargs>>),
                              FALSE, "w")
        eth_ipname ==
            lower(get_config_value(EthConfs.Prefix, sysconf, "choice", EndSelect).value)
        mac == get_config_value(EthConfs.Prefix, sysconf, "asterisk", EthConfs.Mac)
        eth_mac == replace(mac.value, <<":">>, <<" ">>)
        f2 == IF eth_ipname # Str_manual
              THEN add_str_to_file(f1, Fragment("SystemconfEth", <<eth_ipname, eth_mac>>),
                                   FALSE, "a")
              ELSE f1
        flash_ipname == get_config_value(FlashIpConf, sysconf, "bool", EndY).value
        f3 == add_str_to_file(f2, Fragment("SystemconfFlash", <<flash_ipname>>),
                              FALSE, "a")
        loop == FlashLoop(0, <<"0","x","0">>, <<"0","x","0">>, f3, sysconf)
    IN  IF mac.raised THEN [ret |-> IndexError, dtsi |-> f1]
        ELSE IF flash_ipname = <<>> THEN [ret |-> Returned(None), dtsi |-> f2]
        ELSE IF loop.raised THEN [ret |-> ValueError, dtsi |-> loop.file]
        ELSE [ret |-> Returned(None),
              dtsi |-> add_str_to_file(loop.file, Fragment("FlashendSymbols", <<>>),
                                       FALSE, "a")]

\* the slots a configuration of this size describes one by one
MaxSlots == 3

ConfLine(key, value) == key \o <<"=">> \o value \o <<NL>>

PartName(num) == <<"p">> \o str(num)

PartSizes ==
    { <<"0","x","1","0","0","0">>, <<"0","x","2","0","0","0">>,
      <<"0","x","F","0","0","0">> }

\* a slot: no entry, an empty name, a name without a size, a name and a size
SlotChoices == {<<"absent">>, <<"unnamed">>, <<"unsized">>} \cup PartSizes

SlotLines(num, c) ==
    LET name == ConfLine(PartMacro(num, FlashConfs.Name), Quote \o PartName(num) \o Quote)
    IN  CASE c = <<"absent">>  -> <<>>
          [] c = <<"unnamed">> -> ConfLine(PartMacro(num, FlashConfs.Name), Quote \o Quote)
          [] c = <<"unsized">> -> name
          [] OTHER             -> name \o ConfLine(PartMacro(num, FlashConfs.Size), c)

RECURSIVE PartLines(_, _)
PartLines(cs, num) ==
    IF num >= Len(cs) THEN <<>>
    ELSE SlotLines(num, cs[num + 1]) \o PartLines(cs, num + 1)

\* every slot up to the twentieth named, 0x1000 each
FullParts == [i \in 1..(FlashParts + 1) |-> <<"0","x","1","0","0","0">>]

PartConfs ==
    { PartLines(cs, 0) : cs \in [1..MaxSlots -> SlotChoices] \cup {FullParts} }

\* boot arguments and ethernet: a command line and a manual interface, or
\* generated boot arguments and a selected interface with its MAC address
ConfHeads ==
    { ConfLine(BootArgsCmdLineConf, Quote \o <<"c">> \o Quote)
          \o ConfLine(EthManualConf, <<"y">>),
      ConfLine(AutoBootArgsConf, Quote \o <<"a">> \o Quote)
          \o ConfLine(BootArgsCmdLineConf, Quote \o <<"c">> \o Quote)
          \o ConfLine(EthConfs.Prefix \o <<"G">> \o SubSeq(EndSelect, 1, 7), <<"y">>)
          \o ConfLine(EthConfs.Prefix \o <<"G">> \o SubSeq(EthConfs.Mac, 1, 4),
                      Quote \o <<"0","a",":","1","b">> \o Quote) }

FlashLines == { <<>>, ConfLine(FlashIpConf, Quote \o <<"q">> \o Quote) }

DtsiConfs ==
    { FileOf(h \o f \o ps) : h \in ConfHeads, f \in FlashLines, ps \in PartConfs }

\* nothing generated yet, or the file of an earlier run
OldDtsi ==
    { NoFile,
      FileOf(<<Fragment("SystemconfBootargs", <<<<"o">>>>),
               Fragment("FlashendSymbols", <<>>)>>) }

InitDtsi ==
    /\ fs \in [Paths -> DtsiConfs \cup {NoFile}]
    /\ fs[SysConfFile] # NoFile
    /\ fs[MetaDataFile] = NoFile
    /\ gen \in [GenPaths -> OldDtsi]
    /\ gen[P_Interfaces] = NoFile
    /\ gen[P_SystemdWired] = NoFile
    /\ op = NoOp
    /\ reps = 0
    /\ wr = Idle
    /\ hw = NoHw
    /\ warns = 0
    /\ env = NoEnv

GenSysconfDtsiFile ==
    LET r == gen_sysconf_dtsi_file(fs[SysConfFile], gen[SdtSystemConfDtsi])
    IN  /\ gen' = [gen EXCEPT ![SdtSystemConfDtsi] = r.dtsi]
        /\ op' = [NoOp EXCEPT !.name = "gen_sysconf_dtsi_file",
                              !.before = fs[SysConfFile], !.ret = r.ret]
        /\ UNCHANGED <<fs, reps, wr, hw, warns, env>>

NextDtsi == GenSysconfDtsiFile

SpecDtsi == InitDtsi /\ [][NextDtsi]_vars

IsGenDtsi == op.name = "gen_sysconf_dtsi_file"

\* the name and the size the configuration gives slot n
ConfName(n) == Stored(PartMacro(n, FlashConfs.Name), op.before)

ConfSize(n) == Stored(PartMacro(n, FlashConfs.Size), op.before)

\* k: the first slot in 0..18 without a name, 19 if all are named
FirstUnnamed ==
    LET unnamed == { n \in 0..(FlashParts - 1) : ConfName(n) = <<>> }
    IN  IF unnamed = {} THEN FlashParts
        ELSE CHOOSE n \in unnamed : \A o \in unnamed : n <= o

RECURSIVE SumSizes(_)
SumSizes(n) ==
    IF n = 0 THEN 0 ELSE SumSizes(n - 1) + int16(ConfSize(n - 1)).value

PartNodes ==
    SelectSeq(gen[SdtSystemConfDtsi].data, LAMBDA x : x.template = "FlashPartNode")

T_Interfaces == "template/interfaces"

T_SystemdWired == "template/wired.network"

T_InetDFile == "template/inetd.conf"

TemplatePaths == {T_Interfaces, T_SystemdWired, T_InetDFile}

\* shutil.copy2 when the source is a file: the destination gets its content
CopyFile(infile, dest) == IF infile.exists THEN FileOf(infile.data) ELSE dest

IsDigit(c) == \E k \in 1..10 : Digits[k] = c

RECURSIVE DecValue(_, _)
DecValue(ds, acc) ==
    IF ds = <<>> THEN acc
    ELSE DecValue(Tail(ds),
                  acc * 10 + (CHOOSE k \in 0..9 : Digits[k + 1] = Head(ds)))

\* int(x)
int10(x) ==
    LET ds == strip(x)
    IN  IF ds # <<>> /\ \A i \in 1..Len(ds) : IsDigit(ds[i])
        THEN Returned(DecValue(ds, 0))
        ELSE ValueError

\* bin(n).count('1')
RECURSIVE popcount(_)
popcount(n) == IF n = 0 THEN 0 ELSE (n % 2) + popcount(n \div 2)

RECURSIVE SumBits(_)
SumBits(xs) ==
    IF xs = <<>> THEN 0 ELSE popcount(int10(Head(xs)).value) + SumBits(Tail(xs))

\* sum(bin(int(x)).count('1') for x in ip_netmask.split('.'))
cidr_netmask(ip_netmask) ==
    LET xs == split(ip_netmask, ".")
    IN  IF \E i \in 1..Len(xs) : int10(xs[i]).raised THEN ValueError
        ELSE Returned(SumBits(xs))

\* replace_str_fromdir on the busybox directory, three times
EnableInetd(f) ==
    LET telnet == replace(f.data, <<"#","t","e","l","n","e","t">>,
                          <<"t","e","l","n","e","t">>)
        ftp == replace(telnet, <<"#","f","t","p">>, <<"f","t","p">>)
    IN  FileOf(replace(ftp, <<"-","w"," ","/","v","a","r","/","f","t","p","/">>,
                       <<"-","w">>))

\* the stanzas overwriting what was copied
config_initscripts(sysconf, g) ==
    LET Eth(end_macro) ==
            get_config_value(EthConfs.Prefix, sysconf, "asterisk", end_macro)
        ip_addr == Eth(EthConfs.IPConf)
        ip_netmask == Eth(EthConfs.IPNetMaskConf)
        ip_gateway == Eth(EthConfs.IPGetWay)
        ip_dynamic == Eth(EthConfs.Dhcp)
        eth_manual == get_config_value(EthManualConf, sysconf, "bool", EndY).value
        copied == [g EXCEPT ![P_Interfaces] = CopyFile(g[T_Interfaces], @),
                            ![P_SystemdWired] = CopyFile(g[T_SystemdWired], @)]
        static == ip_dynamic.value # <<"y">> /\ eth_manual # <<"y">>
        g1 == [copied EXCEPT ![P_Interfaces] =
                  add_str_to_file(@, Fragment("ActInterfaceStr",
                      <<ip_addr.value, ip_netmask.value, ip_gateway.value>>),
                      FALSE, "w")]
        cidr == cidr_netmask(ip_netmask.value)
        g2 == [g1 EXCEPT ![P_SystemdWired] =
                  add_str_to_file(@, Fragment("ActWiredStr",
                      <<ip_addr.value, str(cidr.value), ip_gateway.value>>),
                      FALSE, "w")]
        Inetd(h) ==
            IF h[P_InetDConf].exists THEN h
            ELSE IF h[T_InetDFile].exists
            THEN [h EXCEPT ![P_InetDConf] = EnableInetd(CopyFile(h[T_InetDFile], @))]
            ELSE h
    IN  IF ip_addr.raised \/ ip_netmask.raised \/ ip_gateway.raised \/ ip_dynamic.raised
        THEN [ret |-> IndexError, gen |-> g]
        ELSE IF ~static THEN [ret |-> Returned(None), gen |-> Inetd(copied)]
        ELSE IF cidr.raised THEN [ret |-> ValueError, gen |-> g1]
        ELSE [ret |-> Returned(None), gen |-> Inetd(g2)]

\* the configuration: DHCP or not, manual or not, address, netmask, gateway
EthLine(end_macro, value) ==
    EthConfs.Prefix \o <<"G">> \o end_macro \o value \o <<NL>>

NetMasks ==
    { <<"2","5","5",".","2","5","5",".","2","5","5",".","0">>,
      <<"2","5","5",".","2","5","5",".","2","5","2",".","0">>,
      <<"2","5","5",".","0",".","0",".","0">> }

NetConfs ==
    { FileOf(d \o mn \o ip \o nm \o gw) :
        d \in { <<>>, EthLine(EthConfs.Dhcp, <<"y">>) },
        mn \in { <<>>, ConfLine(EthManualConf, <<"y">>) },
        ip \in { <<>>, EthLine(EthConfs.IPConf, Quote \o <<"1","0",".","0",".","0",".","2">> \o Quote) },
        nm \in { <<>> } \cup { EthLine(EthConfs.IPNetMaskConf, Quote \o n \o Quote) : n \in NetMasks },
        gw \in { <<>>, EthLine(EthConfs.IPGetWay, Quote \o <<"1","0",".","0",".","0",".","1">> \o Quote) } }

InetdTemplate ==
    <<"#","t","e","l","n","e","t",NL,
      "#","f","t","p"," ","-","w"," ","/","v","a","r","/","f","t","p","/",NL>>

\* the installation's templates, and what an earlier run left
InitNet ==
    /\ fs \in [Paths -> NetConfs \cup {NoFile}]
    /\ fs[SysConfFile] # NoFile
    /\ fs[MetaDataFile] = NoFile
    /\ \E t \in BOOLEAN, old \in BOOLEAN, inetd \in BOOLEAN :
          gen = [q \in GenPaths \cup TemplatePaths |->
                    CASE q = T_Interfaces /\ t -> FileOf(<<Fragment("T_Interfaces", <<>>)>>)
                      [] q = T_SystemdWired /\ t -> FileOf(<<Fragment("T_SystemdWired", <<>>)>>)
                      [] q = T_InetDFile /\ t -> FileOf(InetdTemplate)
                      [] q = P_Interfaces /\ old ->
                             FileOf(<<Fragment("ActInterfaceStr", <<<<>>, <<>>, <<>>>>)>>)
                      [] q = P_SystemdWired /\ old -> FileOf(<<Fragment("T_SystemdWired", <<>>)>>)
                      [] q = P_InetDConf /\ inetd -> FileOf(<<"t","e","l","n","e","t",NL>>)
                      [] OTHER -> NoFile]
    /\ op = NoOp
    /\ reps = 0
    /\ wr = Idle
    /\ hw = NoHw
    /\ warns = 0
    /\ env = NoEnv

ConfigInitscripts ==
    LET r == config_initscripts(fs[SysConfFile], gen)
    IN  /\ gen' = r.gen
        /\ op' = [NoOp EXCEPT !.name = "config_initscripts",
                              !.before = fs[SysConfFile], !.ret = r.ret]
        /\ UNCHANGED <<fs, reps, wr, hw, warns, env>>

NextNet == ConfigInitscripts

SpecNet == InitNet /\ [][NextNet]_vars

IsConfigInit == op.name = "config_initscripts"

\* the value of the first ethernet line holding the key
EthStored(end_macro) ==
    LET lines == readlines(op.before)
        hits == { i \in 1..Len(lines) :
                    /\ startswith(strip(lines[i]), EthConfs.Prefix)
                    /\ re_search(end_macro, strip(lines[i])) }
        l == strip(lines[CHOOSE i \in hits : \A j \in hits : i <= j])
        at == CHOOSE k \in 1..Len(l) : l[k] = "=" /\ \A j \in 1..(k - 1) : l[j] # "="
    IN  IF hits = {} THEN <<>> ELSE Unquoted(SubSeq(l, at + 1, Len(l)))

\* C14: with the templates installed, when DHCP is not enabled and manual
\* configuration is not chosen config_initscripts appends the static-IP
\* stanza to the interfaces file and the CIDR stanza to the systemd network
\* file: each generated file is the copied template followed by the stanza;
\* when DHCP is enabled or manual mode is chosen each generated file equals
\* its template.
C14_TemplateThenStanza ==
    (/\ IsConfigInit
     /\ ~op.ret.raised
     /\ gen[T_Interfaces].exists /\ gen[T_SystemdWired].exists)
        => IF EthStored(EthConfs.Dhcp) # <<"y">> /\ Stored(EthManualConf, op.before) # <<"y">>
           THEN /\ gen[P_Interfaces].data =
                       gen[T_Interfaces].data \o
                       <<Fragment("ActInterfaceStr",
                           <<EthStored(EthConfs.IPConf), EthStored(EthConfs.IPNetMaskConf),
                             EthStored(EthConfs.IPGetWay)>>)>>
                /\ gen[P_SystemdWired].data =
                       gen[T_SystemdWired].data \o
                       <<Fragment("ActWiredStr",
                           <<EthStored(EthConfs.IPConf),
                             str(cidr_netmask(EthStored(EthConfs.IPNetMaskConf)).value),
                             EthStored(EthConfs.IPGetWay)>>)>>
           ELSE /\ gen[P_Interfaces] = gen[T_Interfaces]
                /\ gen[P_SystemdWired] = gen[T_SystemdWired]

====
